---------------------------- MODULE Spec2Model ----------------------------
(***************************************************************************)
(* Model of the chess rules engine in src/main.py (class ChessEngine).     *)
(*                                                                         *)
(* Python strings are modelled as sequences of one-character strings, so   *)
(* that slicing (move[:2]), indexing (notation[0]) and the coordinate      *)
(* codec (_to_algebraic / _from_algebraic) are computed as the code        *)
(* computes them.  A board is a function 0..7 -> 0..7 -> character, row 0  *)
(* being rank 8.  None is modelled as the empty sequence.                  *)
(***************************************************************************)
EXTENDS Integers, Sequences, FiniteSets, TLC

\* ------------------------------------------------------------------------
\* Bounds of the exploration
\* ------------------------------------------------------------------------

\* make_move is fed every legal move while fewer than MaxFreePly moves have
\* been accepted; beyond that only the moves of Scripts are fed.
MaxFreePly == 1

\* _from_algebraic is fed the labels whose file is one of the first MaxFile
\* letters of the alphabet ('a'..'i'), with every decimal digit as rank.
MaxFile == 9

\* is_draw_by_insufficient_material is fed boards with both kings and at most
\* MaxExtra other pieces.
MaxExtra == 2

\* ------------------------------------------------------------------------
\* Python primitives
\* ------------------------------------------------------------------------

None == <<>>

Letters == <<"a", "b", "c", "d", "e", "f", "g", "h", "i", "j", "k", "l", "m",
             "n", "o", "p", "q", "r", "s", "t", "u", "v", "w", "x", "y", "z">>

Digits == <<"0", "1", "2", "3", "4", "5", "6", "7", "8", "9">>

UpperPieces == {"P", "N", "B", "R", "Q", "K"}

LowerPieces == {"p", "n", "b", "r", "q", "k"}

Range(s) == LET seq == s IN {seq[i] : i \in 1..Len(seq)}

\* ord(ch) for the characters the engine handles
ord(ch) ==
    IF \E i \in 1..26 : Letters[i] = ch
    THEN 96 + (CHOOSE i \in 1..26 : Letters[i] = ch)
    ELSE IF \E i \in 1..10 : Digits[i] = ch
    THEN 47 + (CHOOSE i \in 1..10 : Digits[i] = ch)
    ELSE IF ch = "P" THEN 80 ELSE IF ch = "N" THEN 78
    ELSE IF ch = "B" THEN 66 ELSE IF ch = "R" THEN 82
    ELSE IF ch = "Q" THEN 81 ELSE IF ch = "K" THEN 75
    ELSE 32

\* chr(n) for the code points _to_algebraic produces
chr(n) ==
    IF n \in 97..122 THEN Letters[n - 96]
    ELSE IF n \in 48..57 THEN Digits[n - 47]
    ELSE "?"

\* str(n) of a one-digit integer n
str(n) == IF n \in 0..9 THEN <<Digits[n + 1]>> ELSE <<"-", Digits[(0 - n) + 1]>>

\* int(ch) is defined on decimal digits only; Python raises ValueError elsewhere
IsDigit(ch) == \E i \in 1..10 : Digits[i] = ch

int(ch) == (CHOOSE i \in 1..10 : Digits[i] = ch) - 1

isupper(ch) == ch \in UpperPieces

islower(ch) == ch \in LowerPieces

lower(ch) ==
    CASE ch = "P" -> "p" [] ch = "N" -> "n" [] ch = "B" -> "b"
      [] ch = "R" -> "r" [] ch = "Q" -> "q" [] ch = "K" -> "k"
      [] OTHER -> ch

upper(ch) ==
    CASE ch = "p" -> "P" [] ch = "n" -> "N" [] ch = "b" -> "B"
      [] ch = "r" -> "R" [] ch = "q" -> "Q" [] ch = "k" -> "K"
      [] OTHER -> ch

\* s[a:b] with 0-based a and exclusive b, clipped as Python clips slices
Slice(s, a, b) ==
    LET hi == IF b > Len(s) THEN Len(s) ELSE b
    IN  IF a >= hi THEN <<>> ELSE SubSeq(s, a + 1, hi)

\* s.replace(ch, '')
replace(s, ch) == SelectSeq(s, LAMBDA x : x # ch)

RECURSIVE Flatten(_)
Flatten(ss) == IF ss = <<>> THEN <<>> ELSE Head(ss) \o Flatten(Tail(ss))

InBoard(row, col) == 0 <= row /\ row < 8 /\ 0 <= col /\ col < 8

abs(n) == IF n < 0 THEN 0 - n ELSE n

\* ------------------------------------------------------------------------
\* Coordinate codec
\* ------------------------------------------------------------------------

\* Ranks counted from the top of the board.
_to_algebraic_unflipped(row, col) ==
    LET file == chr(ord("a") + col)
        rank == str(row + 1)
    IN  <<file>> \o rank

_to_algebraic(row, col) ==
    LET file == chr(ord("a") + col)
        rank == str(8 - row)
    IN  <<file>> \o rank

\* The result is a record: exc names the exception Python raises ("None" when
\* it returns), row and col are the returned pair.
_from_algebraic(notation) ==
    IF Len(notation) < 2
    THEN [exc |-> "IndexError", row |-> 0, col |-> 0]
    ELSE LET file == notation[1]
             rank == notation[2]
             col  == ord(file) - ord("a")
         IN  IF ~IsDigit(rank)
             THEN [exc |-> "ValueError", row |-> 0, col |-> col]
             ELSE [exc |-> "None", row |-> 8 - int(rank), col |-> col]


\* ------------------------------------------------------------------------
\* Positions
\* ------------------------------------------------------------------------

InitialRows ==
    << <<"r", "n", "b", "q", "k", "b", "n", "r">>,
       <<"p", "p", "p", "p", "p", "p", "p", "p">>,
       <<" ", " ", " ", " ", " ", " ", " ", " ">>,
       <<" ", " ", " ", " ", " ", " ", " ", " ">>,
       <<" ", " ", " ", " ", " ", " ", " ", " ">>,
       <<" ", " ", " ", " ", " ", " ", " ", " ">>,
       <<"P", "P", "P", "P", "P", "P", "P", "P">>,
       <<"R", "N", "B", "Q", "K", "B", "N", "R">> >>

_get_initial_state ==
    [board             |-> [r \in 0..7 |-> [c \in 0..7 |-> InitialRows[r + 1][c + 1]]],
     turn              |-> "w",
     castling_rights   |-> <<"K", "Q", "k", "q">>,
     en_passant_target |-> None,
     halfmove_clock    |-> 0,
     fullmove_number   |-> 1]

\* ------------------------------------------------------------------------
\* Attack detector
\* ------------------------------------------------------------------------

KnightOffsets ==
    << <<-2, -1>>, <<-2, 1>>, <<-1, -2>>, <<-1, 2>>,
       <<1, -2>>, <<1, 2>>, <<2, -1>>, <<2, 1>> >>

KingOffsets ==
    << <<-1, -1>>, <<-1, 0>>, <<-1, 1>>, <<0, -1>>,
       <<0, 1>>, <<1, -1>>, <<1, 0>>, <<1, 1>> >>

StraightDirections == << <<-1, 0>>, <<1, 0>>, <<0, -1>>, <<0, 1>> >>

DiagonalDirections == << <<-1, -1>>, <<-1, 1>>, <<1, -1>>, <<1, 1>> >>

\* A ray that sees through the pieces standing on it.
RayAttacked_through(board, r, c, dr, dc, steps, a, b) ==
    \E n \in 1..steps :
        /\ InBoard(r + n * dr, c + n * dc)
        /\ board[r + n * dr][c + n * dc] \in {a, b}

\* A ray that looks at the adjacent square only.
RayAttacked_adjacent(board, r, c, dr, dc, steps, a, b) ==
    /\ steps > 0
    /\ InBoard(r + dr, c + dc)
    /\ board[r + dr][c + dc] \in {a, b}

\* One ray of the "for _ in range(8)" loops: steps is the number of
\* iterations left, a and b are the two piece characters that attack along it.
RECURSIVE RayAttacked(_, _, _, _, _, _, _, _)
RayAttacked(board, r, c, dr, dc, steps, a, b) ==
    LET r2 == r + dr
        c2 == c + dc
    IN  IF steps = 0 THEN FALSE
        ELSE IF ~InBoard(r2, c2) THEN FALSE
        ELSE LET target_piece == board[r2][c2]
             IN  IF target_piece # " "
                 THEN target_piece = a \/ target_piece = b
                 ELSE RayAttacked(board, r2, c2, dr, dc, steps - 1, a, b)

_is_square_attacked(board, row, col, is_attacked_by_white) ==
    LET enemy_pawn   == IF is_attacked_by_white THEN "P" ELSE "p"
        enemy_knight == IF is_attacked_by_white THEN "N" ELSE "n"
        enemy_rook   == IF is_attacked_by_white THEN "R" ELSE "r"
        enemy_bishop == IF is_attacked_by_white THEN "B" ELSE "b"
        enemy_queen  == IF is_attacked_by_white THEN "Q" ELSE "q"
        enemy_king   == IF is_attacked_by_white THEN "K" ELSE "k"
        direction    == IF is_attacked_by_white THEN 1 ELSE -1
        pawn_attacks == << <<row + direction, col - 1>>, <<row + direction, col + 1>> >>
    IN  \/ \E i \in 1..2 :
              /\ InBoard(pawn_attacks[i][1], pawn_attacks[i][2])
              /\ board[pawn_attacks[i][1]][pawn_attacks[i][2]] = enemy_pawn
        \/ \E i \in 1..8 :
              /\ InBoard(row + KnightOffsets[i][1], col + KnightOffsets[i][2])
              /\ board[row + KnightOffsets[i][1]][col + KnightOffsets[i][2]] = enemy_knight
        \/ \E i \in 1..4 :
              RayAttacked(board, row, col, StraightDirections[i][1],
                          StraightDirections[i][2], 8, enemy_rook, enemy_queen)
        \/ \E i \in 1..4 :
              RayAttacked(board, row, col, DiagonalDirections[i][1],
                          DiagonalDirections[i][2], 8, enemy_bishop, enemy_queen)
        \/ \E i \in 1..8 :
              /\ InBoard(row + KingOffsets[i][1], col + KingOffsets[i][2])
              /\ board[row + KingOffsets[i][1]][col + KingOffsets[i][2]] = enemy_king

\* The first square, in row-major order, that holds king_char; None if absent.
FindKing(board, king_char) ==
    LET hits == {k \in 0..63 : board[k \div 8][k % 8] = king_char}
    IN  IF hits = {} THEN None
        ELSE LET k == CHOOSE x \in hits : \A y \in hits : x <= y
             IN  <<k \div 8, k % 8>>

_is_king_in_check(board, is_white_king) ==
    LET king_char == IF is_white_king THEN "K" ELSE "k"
        king_pos  == FindKing(board, king_char)
    IN  IF king_pos = None THEN FALSE
        ELSE _is_square_attacked(board, king_pos[1], king_pos[2], ~is_white_king)

\* ------------------------------------------------------------------------
\* Board mutation
\* ------------------------------------------------------------------------

SetSquare(board, r, c, v) == [board EXCEPT ![r][c] = v]

\* Queenside castling that takes its rook from the kingside corner.
_get_next_board_state_wrongrook(board, move) ==
    LET start_pos == Slice(move, 0, 2)
        end_pos   == Slice(move, 2, Len(move))
        s         == _from_algebraic(start_pos)
        e         == _from_algebraic(end_pos)
        start_row == s.row
        start_col == s.col
        end_row   == e.row
        end_col   == e.col
        piece     == board[start_row][start_col]
        b1        == SetSquare(board, start_row, start_col, " ")
        b2        == SetSquare(b1, end_row, end_col, piece)
    IN  IF lower(piece) = "p"
        THEN IF Len(move) = 5
             THEN LET promotion_piece == move[5]
                  IN  SetSquare(b2, end_row, end_col,
                                IF isupper(piece) THEN upper(promotion_piece)
                                ELSE lower(promotion_piece))
             ELSE IF start_col # end_col /\ board[end_row][end_col] = " "
             THEN SetSquare(b2, start_row, end_col, " ")
             ELSE b2
        ELSE IF lower(piece) = "k" /\ abs(start_col - end_col) = 2
        THEN LET rook_start_col == 7
                 rook_end_col   == IF end_col > start_col THEN 5 ELSE 3
                 rook           == b2[start_row][rook_start_col]
                 b3             == SetSquare(b2, start_row, rook_end_col, rook)
             IN  SetSquare(b3, start_row, rook_start_col, " ")
        ELSE b2

_get_next_board_state(board, move) ==
    LET start_pos == Slice(move, 0, 2)
        end_pos   == Slice(move, 2, Len(move))
        s         == _from_algebraic(start_pos)
        e         == _from_algebraic(end_pos)
        start_row == s.row
        start_col == s.col
        end_row   == e.row
        end_col   == e.col
        piece     == board[start_row][start_col]
        b1        == SetSquare(board, start_row, start_col, " ")
        b2        == SetSquare(b1, end_row, end_col, piece)
    IN  IF lower(piece) = "p"
        THEN IF Len(move) = 5
             THEN LET promotion_piece == move[5]
                  IN  SetSquare(b2, end_row, end_col,
                                IF isupper(piece) THEN upper(promotion_piece)
                                ELSE lower(promotion_piece))
             ELSE IF start_col # end_col /\ board[end_row][end_col] = " "
             THEN SetSquare(b2, start_row, end_col, " ")
             ELSE b2
        ELSE IF lower(piece) = "k" /\ abs(start_col - end_col) = 2
        THEN LET rook_start_col == IF end_col > start_col THEN 7 ELSE 0
                 rook_end_col   == IF end_col > start_col THEN 5 ELSE 3
                 rook           == b2[start_row][rook_start_col]
                 b3             == SetSquare(b2, start_row, rook_end_col, rook)
             IN  SetSquare(b3, start_row, rook_start_col, " ")
        ELSE b2

\* ------------------------------------------------------------------------
\* Pseudo-legal move generators
\* ------------------------------------------------------------------------

RookDirections == << <<-1, 0>>, <<1, 0>>, <<0, -1>>, <<0, 1>> >>

BishopDirections == << <<-1, -1>>, <<-1, 1>>, <<1, 1>>, <<1, -1>> >>

\* The "while True" loop of get_rook_moves for one direction, from (row, col).
RECURSIVE RookRay(_, _, _, _, _, _, _)
\* A rook ray that also lands on the first piece of the rook's own colour.
RookRay_own(board, start_square_notation, is_white_rook, row, col, dr, dc) ==
    LET reach == {n \in 1..7 :
                     /\ InBoard(row + n * dr, col + n * dc)
                     /\ \A i \in 1..(n - 1) : board[row + i * dr][col + i * dc] = " "}
    IN  [n \in 1..Cardinality(reach) |->
            start_square_notation \o _to_algebraic(row + n * dr, col + n * dc)]

RookRay(board, start_square_notation, is_white_rook, row, col, dr, dc) ==
    LET row2 == row + dr
        col2 == col + dc
    IN  IF ~InBoard(row2, col2) THEN <<>>
        ELSE LET target_piece  == board[row2][col2]
                 move_notation == start_square_notation \o _to_algebraic(row2, col2)
             IN  IF target_piece = " "
                 THEN <<move_notation>>
                      \o RookRay(board, start_square_notation, is_white_rook,
                                 row2, col2, dr, dc)
                 ELSE IF is_white_rook # isupper(target_piece)
                 THEN <<move_notation>>
                 ELSE <<>>

get_rook_moves(board, r, c) ==
    LET start_square_notation == _to_algebraic(r, c)
        is_white_rook         == isupper(board[r][c])
    IN  Flatten([i \in 1..4 |->
            RookRay(board, start_square_notation, is_white_rook, r, c,
                    RookDirections[i][1], RookDirections[i][2])])

\* The "while True" loop of get_bishop_moves for one direction.
RECURSIVE BishopRay(_, _, _, _, _, _, _)
BishopRay(board, start_square_notation, is_white_bishop, row, col, dr, dc) ==
    LET row2 == row + dr
        col2 == col + dc
    IN  IF ~InBoard(row2, col2) THEN <<>>
        ELSE LET target_piece  == board[row2][col2]
                 move_notation == start_square_notation \o _to_algebraic(row2, col2)
             IN  IF target_piece = " "
                 THEN <<move_notation>>
                      \o BishopRay(board, start_square_notation, is_white_bishop,
                                   row2, col2, dr, dc)
                 ELSE IF is_white_bishop # isupper(target_piece)
                 THEN <<move_notation>>
                 ELSE <<>>

get_bishop_moves(board, r, c) ==
    LET start_square_notation == _to_algebraic(r, c)
        is_white_bishop       == isupper(board[r][c])
    IN  Flatten([i \in 1..4 |->
            BishopRay(board, start_square_notation, is_white_bishop, r, c,
                      BishopDirections[i][1], BishopDirections[i][2])])

get_queen_moves(board, r, c) ==
    get_rook_moves(board, r, c) \o get_bishop_moves(board, r, c)

\* The loop body shared in shape by get_knight_moves and get_king_moves:
\* one offset, kept if in bounds and empty or enemy-occupied.
StepMove(board, r, c, is_white, dr, dc) ==
    LET row == r + dr
        col == c + dc
    IN  IF ~InBoard(row, col) THEN <<>>
        ELSE LET target_piece  == board[row][col]
                 move_notation == _to_algebraic(r, c) \o _to_algebraic(row, col)
             IN  IF target_piece = " " THEN <<move_notation>>
                 ELSE IF is_white # isupper(target_piece) THEN <<move_notation>>
                 ELSE <<>>

get_knight_moves(board, r, c) ==
    LET is_white_knight == isupper(board[r][c])
    IN  Flatten([i \in 1..8 |->
            StepMove(board, r, c, is_white_knight,
                     KnightOffsets[i][1], KnightOffsets[i][2])])

get_king_moves(board, r, c) ==
    LET is_white_king == isupper(board[r][c])
    IN  Flatten([i \in 1..8 |->
            StepMove(board, r, c, is_white_king,
                     KingOffsets[i][1], KingOffsets[i][2])])

PromotionPieces == <<"r", "n", "b", "q">>

\* handle_promotion that never appends the promotion piece.
handle_promotion_never(self, move, promotion_piece) == move

\* self is the engine's current_state: handle_promotion reads the moving
\* piece from self.current_state.board, not from the board being searched.
handle_promotion(self, move, promotion_piece) ==
    LET s     == _from_algebraic(Slice(move, 0, 2))
        e     == _from_algebraic(Slice(move, 2, 4))
        piece == self.board[s.row][s.col]
    IN  IF /\ lower(piece) = "p"
           /\ \/ (isupper(piece) /\ e.row = 0)
              \/ (islower(piece) /\ e.row = 7)
        THEN move \o <<lower(promotion_piece)>>
        ELSE move

\* The two-square advance offered without looking at the square crossed.
get_pawn_moves_jump(self, board, r, c) ==
    LET start_square_notation == _to_algebraic(r, c)
        is_white_pawn == isupper(board[r][c])
        rank          == int(start_square_notation[2])
        direction     == IF is_white_pawn THEN -1 ELSE 1
        one_step_row  == r + direction
        start_rank    == IF is_white_pawn THEN 2 ELSE 7
        two_step_row  == r + 2 * direction
        forward ==
            (IF 0 <= one_step_row /\ one_step_row < 8 /\ board[one_step_row][c] = " "
             THEN <<start_square_notation \o _to_algebraic(one_step_row, c)>>
             ELSE <<>>)
            \o (IF /\ rank = start_rank
                   /\ 0 <= two_step_row /\ two_step_row < 8
                   /\ board[two_step_row][c] = " "
                THEN <<start_square_notation \o _to_algebraic(two_step_row, c)>>
                ELSE <<>>)
        attack_directions == << <<direction, -1>>, <<direction, 1>> >>
        attack(i) ==
            LET row == r + attack_directions[i][1]
                col == c + attack_directions[i][2]
            IN  IF ~InBoard(row, col) THEN <<>>
                ELSE LET target_piece == board[row][col]
                     IN  IF target_piece # " " /\ is_white_pawn # isupper(target_piece)
                         THEN <<start_square_notation \o _to_algebraic(row, col)>>
                         ELSE <<>>
        moves == forward \o attack(1) \o attack(2)
    IN  Flatten([i \in 1..Len(moves) |->
            [j \in 1..4 |-> handle_promotion(self, moves[i], PromotionPieces[j])]])

get_pawn_moves(self, board, r, c) ==
    LET start_square_notation == _to_algebraic(r, c)
        is_white_pawn == isupper(board[r][c])
        rank          == int(start_square_notation[2])
        direction     == IF is_white_pawn THEN -1 ELSE 1
        one_step_row  == r + direction
        start_rank    == IF is_white_pawn THEN 2 ELSE 7
        two_step_row  == r + 2 * direction
        forward ==
            IF 0 <= one_step_row /\ one_step_row < 8 /\ board[one_step_row][c] = " "
            THEN <<start_square_notation \o _to_algebraic(one_step_row, c)>>
                 \o (IF /\ rank = start_rank
                        /\ 0 <= two_step_row /\ two_step_row < 8
                        /\ board[two_step_row][c] = " "
                     THEN <<start_square_notation \o _to_algebraic(two_step_row, c)>>
                     ELSE <<>>)
            ELSE <<>>
        attack_directions == << <<direction, -1>>, <<direction, 1>> >>
        attack(i) ==
            LET row == r + attack_directions[i][1]
                col == c + attack_directions[i][2]
            IN  IF ~InBoard(row, col) THEN <<>>
                ELSE LET target_piece == board[row][col]
                     IN  IF target_piece # " " /\ is_white_pawn # isupper(target_piece)
                         THEN <<start_square_notation \o _to_algebraic(row, col)>>
                         ELSE <<>>
        moves == forward \o attack(1) \o attack(2)
    IN  Flatten([i \in 1..Len(moves) |->
            [j \in 1..4 |-> handle_promotion(self, moves[i], PromotionPieces[j])]])

\* ------------------------------------------------------------------------
\* Special-move generators
\* ------------------------------------------------------------------------

\* Castling that tests the landing square only, not the square crossed.
get_casteling_moves_through(state) ==
    LET board    == state.board
        is_white == state.turn = "w"
        rights   == Range(state.castling_rights)
    IN  IF is_white
        THEN (IF /\ "K" \in rights /\ board[7][5] = " " /\ board[7][6] = " "
                 /\ ~_is_king_in_check(board, TRUE)
                 /\ ~_is_square_attacked(board, 7, 6, FALSE)
              THEN << <<"e", "1", "g", "1">> >> ELSE <<>>)
             \o
             (IF /\ "Q" \in rights
                 /\ board[7][3] = " " /\ board[7][2] = " " /\ board[7][1] = " "
                 /\ ~_is_king_in_check(board, TRUE)
                 /\ ~_is_square_attacked(board, 7, 2, FALSE)
              THEN << <<"e", "1", "c", "1">> >> ELSE <<>>)
        ELSE (IF /\ "k" \in rights /\ board[0][5] = " " /\ board[0][6] = " "
                 /\ ~_is_king_in_check(board, FALSE)
                 /\ ~_is_square_attacked(board, 0, 6, TRUE)
              THEN << <<"e", "8", "g", "8">> >> ELSE <<>>)
             \o
             (IF /\ "q" \in rights
                 /\ board[0][3] = " " /\ board[0][2] = " " /\ board[0][1] = " "
                 /\ ~_is_king_in_check(board, FALSE)
                 /\ ~_is_square_attacked(board, 0, 2, TRUE)
              THEN << <<"e", "8", "c", "8">> >> ELSE <<>>)

get_casteling_moves(state) ==
    LET board    == state.board
        is_white == state.turn = "w"
        rights   == Range(state.castling_rights)
    IN  IF is_white
        THEN (IF /\ "K" \in rights /\ board[7][5] = " " /\ board[7][6] = " "
                 /\ ~_is_king_in_check(board, TRUE)
                 /\ ~_is_square_attacked(board, 7, 5, FALSE)
                 /\ ~_is_square_attacked(board, 7, 6, FALSE)
              THEN << <<"e", "1", "g", "1">> >> ELSE <<>>)
             \o
             (IF /\ "Q" \in rights
                 /\ board[7][3] = " " /\ board[7][2] = " " /\ board[7][1] = " "
                 /\ ~_is_king_in_check(board, TRUE)
                 /\ ~_is_square_attacked(board, 7, 3, FALSE)
                 /\ ~_is_square_attacked(board, 7, 2, FALSE)
              THEN << <<"e", "1", "c", "1">> >> ELSE <<>>)
        ELSE (IF /\ "k" \in rights /\ board[0][5] = " " /\ board[0][6] = " "
                 /\ ~_is_king_in_check(board, FALSE)
                 /\ ~_is_square_attacked(board, 0, 5, TRUE)
                 /\ ~_is_square_attacked(board, 0, 6, TRUE)
              THEN << <<"e", "8", "g", "8">> >> ELSE <<>>)
             \o
             (IF /\ "q" \in rights
                 /\ board[0][3] = " " /\ board[0][2] = " " /\ board[0][1] = " "
                 /\ ~_is_king_in_check(board, FALSE)
                 /\ ~_is_square_attacked(board, 0, 3, TRUE)
                 /\ ~_is_square_attacked(board, 0, 2, TRUE)
              THEN << <<"e", "8", "c", "8">> >> ELSE <<>>)

\* En passant looked for on the capturing pawn's wrong rank.
get_en_passant_moves_wrongrank(state, r, c) ==
    IF state.en_passant_target = None THEN <<>>
    ELSE LET piece == state.board[r][c]
         IN  IF lower(piece) # "p" THEN <<>>
             ELSE LET is_white_pawn == isupper(piece)
                      ep            == _from_algebraic(state.en_passant_target)
                  IN  IF /\ (is_white_pawn /\ r = 4) \/ (~is_white_pawn /\ r = 3)
                         /\ abs(c - ep.col) = 1
                      THEN <<_to_algebraic(r, c) \o state.en_passant_target>>
                      ELSE <<>>

get_en_passant_moves(state, r, c) ==
    IF state.en_passant_target = None THEN <<>>
    ELSE LET board == state.board
             piece == board[r][c]
         IN  IF lower(piece) # "p" THEN <<>>
             ELSE LET is_white_pawn == isupper(piece)
                      ep            == _from_algebraic(state.en_passant_target)
                  IN  IF /\ (is_white_pawn /\ r = 3) \/ (~is_white_pawn /\ r = 4)
                         /\ abs(c - ep.col) = 1
                      THEN <<_to_algebraic(r, c) \o state.en_passant_target>>
                      ELSE <<>>

\* ------------------------------------------------------------------------
\* Legality filter
\* ------------------------------------------------------------------------

\* self.move_calculators[piece.lower()](state.board, r, c)
move_calculators(self, kind, board, r, c) ==
    CASE kind = "r" -> get_rook_moves(board, r, c)
      [] kind = "n" -> get_knight_moves(board, r, c)
      [] kind = "b" -> get_bishop_moves(board, r, c)
      [] kind = "q" -> get_queen_moves(board, r, c)
      [] kind = "k" -> get_king_moves(board, r, c)
      [] kind = "p" -> get_pawn_moves(self, board, r, c)

\* Lines 125-146: the candidates, in generation order.
pseudo_legal_moves(self, state) ==
    LET is_white_turn == state.turn = "w"
        of_square(k) ==
            LET r     == k \div 8
                c     == k % 8
                piece == state.board[r][c]
            IN  IF piece = " " THEN <<>>
                ELSE IF is_white_turn = isupper(piece)
                THEN move_calculators(self, lower(piece), state.board, r, c)
                     \o (IF lower(piece) = "p"
                         THEN get_en_passant_moves(state, r, c) ELSE <<>>)
                ELSE <<>>
    IN  Flatten([k \in 1..64 |-> of_square(k - 1)]) \o get_casteling_moves(state)

\* The candidates returned without the king-safety filter.
get_all_legal_moves_unfiltered(self, state) == pseudo_legal_moves(self, state)

\* The filter applied to the king of the side that is not moving.
get_all_legal_moves_wrongking(self, state) ==
    LET is_white_turn == state.turn = "w"
        candidates    == pseudo_legal_moves(self, state)
        safe          == {move \in Range(candidates) :
                            ~_is_king_in_check(
                                _get_next_board_state(state.board, move),
                                ~is_white_turn)}
    IN  SelectSeq(candidates, LAMBDA move : move \in safe)

\* The test of lines 151-153 depends on the move only, so it is evaluated once
\* for each distinct candidate; every occurrence that passes it is kept.
get_all_legal_moves(self, state) ==
    LET is_white_turn == state.turn = "w"
        candidates    == pseudo_legal_moves(self, state)
        safe          == {move \in Range(candidates) :
                            ~_is_king_in_check(
                                _get_next_board_state(state.board, move),
                                is_white_turn)}
    IN  SelectSeq(candidates, LAMBDA move : move \in safe)

\* ------------------------------------------------------------------------
\* Game-state classification
\* ------------------------------------------------------------------------

is_checkmate(self, state) ==
    LET is_white == state.turn = "w"
    IN  IF ~_is_king_in_check(state.board, is_white) THEN FALSE
        ELSE Len(get_all_legal_moves(self, state)) = 0

\* is_stalemate without the test for check.
is_stalemate_nocheck(self, state) ==
    Len(get_all_legal_moves(self, state)) = 0

is_stalemate(self, state) ==
    LET is_white == state.turn = "w"
    IN  IF _is_king_in_check(state.board, is_white) THEN FALSE
        ELSE Len(get_all_legal_moves(self, state)) = 0

\* Two bishops taken for a draw whatever squares they stand on.
is_draw_by_insufficient_material_anybishops(state) ==
    LET occupied == SelectSeq([k \in 1..64 |-> k - 1],
                        LAMBDA k : state.board[k \div 8][k % 8] # " ")
        lowered  == [i \in 1..Len(occupied) |->
                        lower(state.board[occupied[i] \div 8][occupied[i] % 8])]
        pieces   == SelectSeq(lowered, LAMBDA p : p # "k")
    IN  IF Len(pieces) = 0 THEN TRUE
        ELSE IF Len(pieces) = 1 /\ pieces[1] \in {"b", "n"} THEN TRUE
        ELSE IF Len(pieces) = 2 /\ \A i \in 1..2 : pieces[i] = "b" THEN TRUE
        ELSE FALSE

is_draw_by_insufficient_material(state) ==
    LET occupied == SelectSeq([k \in 1..64 |-> k - 1],
                        LAMBDA k : state.board[k \div 8][k % 8] # " ")
        lowered  == [i \in 1..Len(occupied) |->
                        lower(state.board[occupied[i] \div 8][occupied[i] % 8])]
        pieces   == SelectSeq(lowered, LAMBDA p : p # "k")
    IN  IF Len(pieces) = 0 THEN TRUE
        ELSE IF Len(pieces) = 1 /\ pieces[1] \in {"b", "n"} THEN TRUE
        ELSE IF Len(pieces) = 2 /\ \A i \in 1..2 : pieces[i] = "b"
        THEN LET bishops == {((k \div 8) + (k % 8)) % 2 :
                                k \in {x \in 0..63 :
                                    lower(state.board[x \div 8][x % 8]) = "b"}}
             IN  IF Cardinality(bishops) = 1 THEN TRUE ELSE FALSE
        ELSE FALSE

\* ------------------------------------------------------------------------
\* State transition
\* ------------------------------------------------------------------------

\* The turn handed to black whoever moved.
new_turn_stuck(current_state) == "b"

\* Line 75: the side to move after a move.

new_turn(current_state) == IF current_state.turn = "w" THEN "b" ELSE "w"

\* A white king move that writes black's flags instead of dropping white's.
new_castling_rights_regrow(cr, piece, start_pos) ==
    IF piece = "K" THEN <<"k", "q">>
    ELSE IF piece = "k" THEN replace(replace(cr, "k"), "q")
    ELSE IF piece = "R" /\ start_pos = <<"h", "1">> THEN replace(cr, "K")
    ELSE IF piece = "R" /\ start_pos = <<"a", "1">> THEN replace(cr, "Q")
    ELSE IF piece = "r" /\ start_pos = <<"h", "8">> THEN replace(cr, "k")
    ELSE IF piece = "r" /\ start_pos = <<"a", "8">> THEN replace(cr, "q")
    ELSE cr

\* The corners of the white rooks taken for each other.
new_castling_rights_swapped(cr, piece, start_pos) ==
    IF piece = "K" THEN replace(replace(cr, "K"), "Q")
    ELSE IF piece = "k" THEN replace(replace(cr, "k"), "q")
    ELSE IF piece = "R" /\ start_pos = <<"a", "1">> THEN replace(cr, "K")
    ELSE IF piece = "R" /\ start_pos = <<"h", "1">> THEN replace(cr, "Q")
    ELSE IF piece = "r" /\ start_pos = <<"h", "8">> THEN replace(cr, "k")
    ELSE IF piece = "r" /\ start_pos = <<"a", "8">> THEN replace(cr, "q")
    ELSE cr

\* Lines 77-91: the castling rights after piece has left start_pos.
new_castling_rights(cr, piece, start_pos) ==
    IF piece = "K" THEN replace(replace(cr, "K"), "Q")
    ELSE IF piece = "k" THEN replace(replace(cr, "k"), "q")
    ELSE IF piece = "R" /\ start_pos = <<"h", "1">> THEN replace(cr, "K")
    ELSE IF piece = "R" /\ start_pos = <<"a", "1">> THEN replace(cr, "Q")
    ELSE IF piece = "r" /\ start_pos = <<"h", "8">> THEN replace(cr, "k")
    ELSE IF piece = "r" /\ start_pos = <<"a", "8">> THEN replace(cr, "q")
    ELSE cr

\* The target set for any piece that changes row by two, knights included.
new_en_passant_anypiece(piece, start_row, start_col, end_row) ==
    IF abs(start_row - end_row) = 2
    THEN _to_algebraic((start_row + end_row) \div 2, start_col)
    ELSE None

\* Lines 93-100: the en passant target after piece went from start_row to
\* end_row.
new_en_passant(piece, start_row, start_col, end_row) ==
    IF lower(piece) = "p" /\ abs(start_row - end_row) = 2
    THEN _to_algebraic((start_row + end_row) \div 2, start_col)
    ELSE None

\* The clock reset by pawn moves only, captures forgotten.
new_halfmove_clock_pawnonly(current_state, piece, is_capture) ==
    IF lower(piece) = "p" THEN 0
    ELSE current_state.halfmove_clock + 1

\* Lines 106-108: the halfmove clock after piece has moved.
new_halfmove_clock(current_state, piece, is_capture) ==
    IF lower(piece) = "p" \/ is_capture THEN 0
    ELSE current_state.halfmove_clock + 1

\* The move number advanced after white's move instead of black's.
new_fullmove_number_afterwhite(current_state) ==
    IF current_state.turn = "w" THEN current_state.fullmove_number + 1
    ELSE current_state.fullmove_number

\* Lines 110-112: the fullmove number after the side to move has moved.
new_fullmove_number(current_state) ==
    IF current_state.turn = "b" THEN current_state.fullmove_number + 1
    ELSE current_state.fullmove_number

_create_new_state_from_move(current_state, move) ==
    LET start_pos == Slice(move, 0, 2)
        end_pos   == Slice(move, 2, Len(move))
        s         == _from_algebraic(start_pos)
        e         == _from_algebraic(end_pos)
        start_row == s.row
        start_col == s.col
        end_row   == e.row
        end_col   == e.col
        new_board == _get_next_board_state(current_state.board, move)
        piece     == current_state.board[start_row][start_col]
        is_capture == current_state.board[end_row][end_col] # " "
    IN  [board             |-> new_board,
         turn              |-> new_turn(current_state),
         castling_rights   |-> new_castling_rights(
                                   current_state.castling_rights, piece, start_pos),
         en_passant_target |-> new_en_passant(piece, start_row, start_col, end_row),
         halfmove_clock    |-> new_halfmove_clock(current_state, piece, is_capture),
         fullmove_number   |-> new_fullmove_number(current_state)]

\* ------------------------------------------------------------------------
\* Inputs fed to make_move
\* ------------------------------------------------------------------------

\* Fool's mate, then one more move typed at the mated side
FoolsMate ==
    << <<"f", "2", "f", "3">>, <<"e", "7", "e", "5">>, <<"g", "2", "g", "4">>,
       <<"d", "8", "h", "4">>, <<"a", "2", "a", "3">> >>

\* Both sides castle kingside
CastleShort ==
    << <<"e", "2", "e", "4">>, <<"e", "7", "e", "5">>, <<"g", "1", "f", "3">>,
       <<"b", "8", "c", "6">>, <<"f", "1", "c", "4">>, <<"f", "8", "c", "5">>,
       <<"e", "1", "g", "1">>, <<"g", "8", "f", "6">>, <<"d", "2", "d", "3">>,
       <<"e", "8", "g", "8">> >>

\* Both sides castle queenside
CastleLong ==
    << <<"d", "2", "d", "4">>, <<"d", "7", "d", "5">>, <<"b", "1", "c", "3">>,
       <<"b", "8", "c", "6">>, <<"c", "1", "f", "4">>, <<"c", "8", "f", "5">>,
       <<"d", "1", "d", "2">>, <<"d", "8", "d", "7">>, <<"e", "1", "c", "1">>,
       <<"e", "8", "c", "8">> >>

\* A black knight takes the rook on h1, then white castles kingside
CastleNoRook ==
    << <<"g", "1", "f", "3">>, <<"g", "8", "f", "6">>, <<"g", "2", "g", "3">>,
       <<"f", "6", "e", "4">>, <<"f", "1", "g", "2">>, <<"e", "4", "f", "2">>,
       <<"a", "2", "a", "3">>, <<"f", "2", "h", "1">>, <<"e", "1", "g", "1">> >>

\* En passant by black (a4xb3) and by white (e5xd6)
EnPassant ==
    << <<"e", "2", "e", "4">>, <<"a", "7", "a", "5">>, <<"e", "4", "e", "5">>,
       <<"a", "5", "a", "4">>, <<"b", "2", "b", "4">>, <<"a", "4", "b", "3">>,
       <<"c", "2", "b", "3">>, <<"d", "7", "d", "5">>, <<"e", "5", "d", "6">> >>

\* The pawn on e5 is pinned by the queen on e7 when d7d5 is played
EnPassantPinned ==
    << <<"e", "2", "e", "4">>, <<"e", "7", "e", "5">>, <<"d", "2", "d", "4">>,
       <<"e", "5", "d", "4">>, <<"e", "4", "e", "5">>, <<"d", "8", "e", "7">>,
       <<"a", "2", "a", "3">>, <<"d", "7", "d", "5">>, <<"e", "5", "d", "6">> >>

\* A white pawn walks to h7 and promotes by capturing on g8
Promotion ==
    << <<"h", "2", "h", "4">>, <<"g", "7", "g", "5">>, <<"h", "4", "g", "5">>,
       <<"h", "7", "h", "6">>, <<"g", "5", "h", "6">>, <<"a", "7", "a", "6">>,
       <<"h", "6", "h", "7">>, <<"a", "6", "a", "5">>, <<"h", "7", "g", "8", "q">> >>

\* The white queen checks twice and each check is answered
CheckAnswered ==
    << <<"e", "2", "e", "4">>, <<"f", "7", "f", "5">>, <<"d", "1", "h", "5">>,
       <<"g", "7", "g", "6">>, <<"h", "5", "g", "6">>, <<"h", "7", "g", "6">> >>

\* The shortest stalemate (white queen to e6 leaves black without a move), then
\* one more move typed at the stalemated side
Stalemate ==
    << <<"e", "2", "e", "3">>, <<"a", "7", "a", "5">>, <<"d", "1", "h", "5">>,
       <<"a", "8", "a", "6">>, <<"h", "5", "a", "5">>, <<"h", "7", "h", "5">>,
       <<"h", "2", "h", "4">>, <<"a", "6", "h", "6">>, <<"a", "5", "c", "7">>,
       <<"f", "7", "f", "6">>, <<"c", "7", "d", "7">>, <<"e", "8", "f", "7">>,
       <<"d", "7", "b", "7">>, <<"d", "8", "d", "3">>, <<"b", "7", "b", "8">>,
       <<"d", "3", "h", "7">>, <<"b", "8", "c", "8">>, <<"f", "7", "g", "6">>,
       <<"c", "8", "e", "6">>, <<"a", "7", "a", "6">> >>

\* Each rook leaves its corner, then each king steps forward
RooksAndKings ==
    << <<"h", "2", "h", "4">>, <<"h", "7", "h", "5">>, <<"h", "1", "h", "3">>,
       <<"h", "8", "h", "6">>, <<"a", "2", "a", "4">>, <<"a", "7", "a", "5">>,
       <<"a", "1", "a", "3">>, <<"a", "8", "a", "6">>, <<"e", "2", "e", "4">>,
       <<"e", "7", "e", "5">>, <<"e", "1", "e", "2">>, <<"e", "8", "e", "7">> >>

\* White has cleared f1 and g1 while the bishop on a6 attacks f1, then castles
CastleThroughAttack ==
    << <<"g", "2", "g", "3">>, <<"b", "7", "b", "6">>, <<"f", "1", "g", "2">>,
       <<"c", "8", "a", "6">>, <<"g", "1", "f", "3">>, <<"h", "7", "h", "6">>,
       <<"e", "2", "e", "4">>, <<"h", "6", "h", "5">>, <<"e", "1", "g", "1">> >>

\* The same pawn takes on g8 without naming a promotion piece
PromotionBare ==
    SubSeq(Promotion, 1, 8) \o << <<"h", "7", "g", "8">> >>

Scripts ==
    {FoolsMate, CastleShort, CastleLong, CastleNoRook, EnPassant,
     EnPassantPinned, Promotion, CheckAnswered, Stalemate, RooksAndKings,
     CastleThroughAttack, PromotionBare}

\* Strings that are rejected wherever they are typed here: empty, too short,
\* off the board, a pawn advancing three squares, a promotion onto rank 4.
BadInputs ==
    { <<>>,
      <<"e", "2">>,
      <<"z", "9", "z", "9">>,
      <<"e", "2", "e", "5">>,
      <<"e", "2", "e", "4", "q">> }

\* ------------------------------------------------------------------------
\* The engine session
\* ------------------------------------------------------------------------

VARIABLES
    current_state,  \* self.current_state
    history,        \* self.history
    lastOp,         \* the last call made on the session and what it returned
    pre,            \* current_state and history before that call, and the call before it
    moves           \* the accepted moves that led to the current position

vars == <<current_state, history, lastOp, pre, moves>>

\* The session as it stands when a call is made, and the call made before it.
Snapshot ==
    [current_state |-> current_state, history |-> history,
     op |-> lastOp.op, result |-> lastOp.result]

Init ==
    /\ current_state = _get_initial_state
    /\ history = <<_get_initial_state>>
    /\ lastOp = [op |-> "__init__", arg |-> <<>>, result |-> "None"]
    /\ pre = [current_state |-> _get_initial_state, history |-> <<_get_initial_state>>,
              op |-> "None", result |-> "None"]
    /\ moves = <<>>

\* What the caller may type next: any legal move during the first MaxFreePly
\* plies; and, while the game follows a script, the next move of that script
\* or a bad input.
Inputs(legal_moves) ==
    LET followed == {x \in Scripts :
                        Len(x) >= Len(moves) /\ SubSeq(x, 1, Len(moves)) = moves}
    IN  (IF Len(moves) < MaxFreePly THEN Range(legal_moves) ELSE {})
        \cup {scr[Len(moves) + 1] : scr \in {x \in followed : Len(x) > Len(moves)}}
        \cup (IF followed # {} THEN BadInputs ELSE {})

\* make_move that records a position in the history before it validates.
make_move_partial ==
    \E typed \in
        (LET legal_moves == get_all_legal_moves(current_state, current_state)
         IN  {<<move, move \notin Range(legal_moves)>> : move \in Inputs(legal_moves)}) :
        LET move == typed[1]
        IN  /\ pre' = Snapshot
            /\ IF typed[2]
               THEN /\ lastOp' = [op |-> "make_move", arg |-> move,
                                  result |-> "ValueError"]
                    /\ history' = Append(history, current_state)
                    /\ UNCHANGED <<current_state, moves>>
               ELSE LET new_state == _create_new_state_from_move(current_state, move)
                    IN  /\ current_state' = new_state
                        /\ history' = Append(history, new_state)
                        /\ moves' = Append(moves, move)
                        /\ lastOp' = [op |-> "make_move", arg |-> move,
                                      result |-> "None"]

\* make_move(move) for some typed move.  legal_moves does not depend on the
\* argument: it is computed once, and each typed move is drawn together with
\* the outcome of the test "move not in legal_moves".
make_move ==
    \E typed \in
        (LET legal_moves == get_all_legal_moves(current_state, current_state)
         IN  {<<move, move \notin Range(legal_moves)>> : move \in Inputs(legal_moves)}) :
        LET move == typed[1]
        IN  /\ pre' = Snapshot
            /\ IF typed[2]
               THEN /\ lastOp' = [op |-> "make_move", arg |-> move,
                                  result |-> "ValueError"]
                    /\ UNCHANGED <<current_state, history, moves>>
               ELSE LET new_state == _create_new_state_from_move(current_state, move)
                    IN  /\ current_state' = new_state
                        /\ history' = Append(history, new_state)
                        /\ moves' = Append(moves, move)
                        /\ lastOp' = [op |-> "make_move", arg |-> move,
                                      result |-> "None"]

\* undo_move that refuses one position too early.
undo_move_offbyone ==
    /\ pre' = Snapshot
    /\ IF Len(history) <= 2
       THEN /\ lastOp' = [op |-> "undo_move", arg |-> <<>>, result |-> "False"]
            /\ UNCHANGED <<current_state, history, moves>>
       ELSE /\ history' = SubSeq(history, 1, Len(history) - 1)
            /\ current_state' = history[Len(history) - 1]
            /\ moves' = SubSeq(moves, 1, Len(moves) - 1)
            /\ lastOp' = [op |-> "undo_move", arg |-> <<>>, result |-> "True"]

\* undo_move that pops the history and forgets to reset current_state.
undo_move_stale ==
    /\ pre' = Snapshot
    /\ IF Len(history) <= 1
       THEN /\ lastOp' = [op |-> "undo_move", arg |-> <<>>, result |-> "False"]
            /\ UNCHANGED <<current_state, history, moves>>
       ELSE /\ history' = SubSeq(history, 1, Len(history) - 1)
            /\ current_state' = current_state
            /\ moves' = SubSeq(moves, 1, Len(moves) - 1)
            /\ lastOp' = [op |-> "undo_move", arg |-> <<>>, result |-> "True"]

undo_move ==
    /\ pre' = Snapshot
    /\ IF Len(history) <= 1
       THEN /\ lastOp' = [op |-> "undo_move", arg |-> <<>>, result |-> "False"]
            /\ UNCHANGED <<current_state, history, moves>>
       ELSE /\ history' = SubSeq(history, 1, Len(history) - 1)
            /\ current_state' = history[Len(history) - 1]
            /\ moves' = SubSeq(moves, 1, Len(moves) - 1)
            /\ lastOp' = [op |-> "undo_move", arg |-> <<>>, result |-> "True"]

Next ==
    \/ make_move
    \/ undo_move

Spec == Init /\ [][Next]_vars

\* ------------------------------------------------------------------------
\* The console game of test.py
\* ------------------------------------------------------------------------

\* The winner named as the side that is to move in the final position.
winner_tomove(hist) ==
    IF hist[Len(hist)].turn = "w" THEN "White Win!" ELSE "Black Win!"

\* Lines 12-15: the line printed for a checkmate; history[-2] raises
\* IndexError on a history of one position.
winner(hist) ==
    IF Len(hist) < 2 THEN "IndexError"
    ELSE IF hist[Len(hist) - 1].turn = "w" THEN "White Win!" ELSE "Black Win!"

\* Lines 11-16: the position is a checkmate; the winner is printed and the
\* loop is left.  lastOp.op = "print" marks the loop as left.
console_checkmate ==
    /\ lastOp.op # "print"
    /\ is_checkmate(current_state, current_state)
    /\ pre' = Snapshot
    /\ lastOp' = [op |-> "print", arg |-> <<>>, result |-> winner(history)]
    /\ UNCHANGED <<current_state, history, moves>>

\* Lines 18-23: otherwise a move is read and handed to make_move; a
\* ValueError is caught and the loop goes on.
console_move ==
    /\ lastOp.op # "print"
    /\ ~is_checkmate(current_state, current_state)
    /\ make_move

NextConsole ==
    \/ console_checkmate
    \/ console_move

SpecConsole == Init /\ [][NextConsole]_vars

\* ------------------------------------------------------------------------
\* Move list rebuilt from the history
\* ------------------------------------------------------------------------

\* The loops of lines 605-618 visit the squares in row-major order: the
\* source is the first square that was emptied and for which some other
\* changed square now holds the piece that stood on it; the destination is
\* the first such square.  The empty string is returned when there is none.
_find_move_between_states(prev, curr) ==
    LET changed == {k \in 0..63 :
                       prev.board[k \div 8][k % 8] # curr.board[k \div 8][k % 8]}
        emptied == {k \in changed :
                       /\ prev.board[k \div 8][k % 8] # " "
                       /\ curr.board[k \div 8][k % 8] = " "}
        ends(k) == {k2 \in changed \ {k} :
                       curr.board[k2 \div 8][k2 % 8] = prev.board[k \div 8][k % 8]}
        starts  == {k \in emptied : ends(k) # {}}
    IN  IF starts = {} THEN <<>>
        ELSE LET k  == CHOOSE x \in starts : \A y \in starts : x <= y
                 k2 == CHOOSE x \in ends(k) : \A y \in ends(k) : x <= y
             IN  _to_algebraic(k \div 8, k % 8) \o _to_algebraic(k2 \div 8, k2 % 8)

\* get_move_history() on a session whose history is hist
get_move_history(hist) ==
    LET found == [i \in 1..(Len(hist) - 1) |->
                     _find_move_between_states(hist[i], hist[i + 1])]
    IN  SelectSeq(found, LAMBDA move : move # <<>>)

\* ------------------------------------------------------------------------
\* Calls of the helpers that do not touch the session
\* ------------------------------------------------------------------------

\* The strings handed to _from_algebraic: two-character labels on and off the
\* board, a label whose rank is not a digit, and strings that are too short.
Labels ==
    {<<Letters[f], Digits[d]>> : f \in 1..MaxFile, d \in 1..10}
        \cup {<<"a", "x">>, <<"a">>, <<>>}

\* The 64 labels of the board
BoardLabels ==
    {<<Letters[f], Digits[d]>> : f \in 1..8, d \in 2..9}

\* Squares and pieces put on the board beside the two kings; no piece on any
\* of these squares attacks e1 or e8.
MaterialSquares == {<<5, 0>>, <<5, 1>>, <<2, 0>>, <<2, 1>>}

MaterialPieces == {"B", "b", "N", "n", "R", "p"}

\* The position with the kings on e1 and e8 and the pieces of extra
Endgame(extra) ==
    [board             |-> [r \in 0..7 |-> [c \in 0..7 |->
                                IF <<r, c>> \in DOMAIN extra THEN extra[<<r, c>>]
                                ELSE IF <<r, c>> = <<7, 4>> THEN "K"
                                ELSE IF <<r, c>> = <<0, 4>> THEN "k"
                                ELSE " "]],
     turn              |-> "w",
     castling_rights   |-> <<>>,
     en_passant_target |-> None,
     halfmove_clock    |-> 0,
     fullmove_number   |-> 40]

Endgames ==
    {Endgame(extra) :
        extra \in UNION {[S -> MaterialPieces] :
                            S \in {T \in SUBSET MaterialSquares :
                                      Cardinality(T) <= MaxExtra}}}

from_algebraic_call ==
    \E notation \in Labels :
        /\ lastOp' = [op |-> "_from_algebraic", arg |-> notation,
                      result |-> _from_algebraic(notation)]
        /\ UNCHANGED <<current_state, history, pre, moves>>

to_algebraic_call ==
    \E row \in 0..7, col \in 0..7 :
        /\ lastOp' = [op |-> "_to_algebraic", arg |-> <<row, col>>,
                      result |-> _to_algebraic(row, col)]
        /\ UNCHANGED <<current_state, history, pre, moves>>

is_draw_by_insufficient_material_call ==
    \E state \in Endgames :
        /\ lastOp' = [op |-> "is_draw_by_insufficient_material", arg |-> state,
                      result |-> is_draw_by_insufficient_material(state)]
        /\ UNCHANGED <<current_state, history, pre, moves>>

NextPure ==
    \/ from_algebraic_call
    \/ to_algebraic_call
    \/ is_draw_by_insufficient_material_call

SpecPure == Init /\ [][NextPure]_vars

\* ------------------------------------------------------------------------
\* Properties
\* ------------------------------------------------------------------------

LegalNow == get_all_legal_moves(current_state, current_state)

Accepted == lastOp.op = "make_move" /\ lastOp.result = "None"

PieceCount(board, ch) == Cardinality({k \in 0..63 : board[k \div 8][k % 8] = ch})

OneKingEach(board) == PieceCount(board, "K") = 1 /\ PieceCount(board, "k") = 1

\* The piece a move picks up on a board
MovedPiece(board, move) ==
    LET s == _from_algebraic(Slice(move, 0, 2)) IN board[s.row][s.col]

\* C1: from the initial position get_all_legal_moves returns exactly 20
\* entries, 16 of them pawn moves and 4 of them knight moves.
C1_TwentyInitialMoves ==
    current_state = _get_initial_state =>
        LET board == current_state.board
            legal_moves == LegalNow
            of(kind) == {i \in 1..Len(legal_moves) :
                            lower(MovedPiece(board, legal_moves[i])) = kind}
        IN  /\ Len(legal_moves) = 20
            /\ Cardinality(of("p")) = 16
            /\ Cardinality(of("n")) = 4

\* C2: every position of the history, the current position and every
\* position obtained by applying a legal move to the current position holds
\* exactly one white king and exactly one black king.
C2_OneKingEach ==
    /\ \A i \in 1..Len(history) : OneKingEach(history[i].board)
    /\ OneKingEach(current_state.board)
    /\ \A move \in Range(LegalNow) :
          OneKingEach(_create_new_state_from_move(current_state, move).board)

\* A move was made that gives check, and the checked side has answers.
C2_Witness ==
    /\ Accepted
    /\ _is_king_in_check(current_state.board, current_state.turn = "w")
    /\ Len(LegalNow) > 0

\* C3: a make_move call whose argument is not among the legal moves of the
\* current position raises ValueError and leaves current_state and the
\* history as they were.
C3_RejectedMoveChangesNothing ==
    LET before == pre.current_state
        legal  == Range(get_all_legal_moves(before, before))
    IN  (/\ lastOp.op = "make_move"
         /\ lastOp.arg \notin legal \/ lastOp.result = "ValueError")
        => (/\ lastOp.arg \notin legal
            /\ lastOp.result = "ValueError"
            /\ current_state = before
            /\ history = pre.history)

\* A malformed string was rejected in the middle of a game.
C3_Witness ==
    /\ lastOp = [op |-> "make_move", arg |-> <<"z", "9", "z", "9">>,
                 result |-> "ValueError"]
    /\ Len(history) > 1
    /\ current_state = pre.current_state
    /\ history = pre.history

\* C4: undo_move called right after an accepted make_move returns True and
\* restores the position and the history of before that make_move;
\* undo_move on a history holding only the initial position returns False
\* and changes nothing.
C4_UndoRestores ==
    [][/\ (Accepted /\ lastOp'.op = "undo_move")
          => (/\ lastOp'.result = "True"
              /\ current_state' = pre.current_state
              /\ history' = pre.history)
       /\ (lastOp'.op = "undo_move" /\ history = <<_get_initial_state>>)
          => (/\ lastOp'.result = "False"
              /\ current_state' = current_state
              /\ history' = history)]_vars

\* undo_move has just undone an accepted move made at least two plies in.
C4_Witness ==
    /\ lastOp.op = "undo_move"
    /\ lastOp.result = "True"
    /\ pre.op = "make_move"
    /\ pre.result = "None"
    /\ Len(history) >= 3
    /\ pre.history = Append(history, pre.current_state)

\* C5: the history is never empty, starts with the initial position and ends
\* with current_state.
C5_HistoryShape ==
    /\ Len(history) >= 1
    /\ history[1] = _get_initial_state
    /\ current_state = history[Len(history)]

\* A rejected make_move has followed an undo_move in the middle of a game.
C5_Witness ==
    /\ lastOp.op = "make_move"
    /\ lastOp.result = "ValueError"
    /\ pre.op = "undo_move"
    /\ pre.result = "True"
    /\ Len(history) >= 2

\* C6: consecutive positions of the history have opposite sides to move, and
\* every legal move of the current position hands the turn to the other side.
C6_TurnAlternates ==
    /\ \A i \in 1..(Len(history) - 1) :
          /\ history[i].turn \in {"w", "b"}
          /\ history[i + 1].turn \in {"w", "b"}
          /\ history[i + 1].turn # history[i].turn
    /\ \A move \in Range(LegalNow) :
          _create_new_state_from_move(current_state, move).turn # current_state.turn

\* Black has just moved and the turn is back with white.
C6_Witness ==
    /\ Accepted
    /\ Len(history) >= 3
    /\ history[Len(history) - 1].turn = "b"
    /\ current_state.turn = "w"

\* C7: get_all_legal_moves, is_checkmate and is_stalemate give the same
\* answer for a position s whether they are called on a session whose current
\* position is s or on a session whose current position is another one
\* (s is the position the session held before its last call).
C7_AnswersIgnoreTheSession ==
    LET s == pre.current_state
    IN  /\ get_all_legal_moves(current_state, s) = get_all_legal_moves(s, s)
        /\ is_checkmate(current_state, s) = is_checkmate(s, s)
        /\ is_stalemate(current_state, s) = is_stalemate(s, s)

CastlingMoves ==
    { <<"e", "1", "g", "1">>, <<"e", "1", "c", "1">>,
      <<"e", "8", "g", "8">>, <<"e", "8", "c", "8">> }

\* C8: applying a legal castling move puts the mover's king on the g- or
\* c-file, the mover's rook on the f- or d-file of the same rank, leaves the
\* rook's corner empty and clears both castling rights of the mover.
C8_CastlingResult ==
    \A move \in Range(LegalNow) \cap CastlingMoves :
        LET white == current_state.turn = "w"
            king  == IF white THEN "K" ELSE "k"
            rook  == IF white THEN "R" ELSE "r"
            row   == IF white THEN 7 ELSE 0
            short == move[3] = "g"
            next  == _create_new_state_from_move(current_state, move)
        IN  MovedPiece(current_state.board, move) = king
            => /\ next.board[row][IF short THEN 6 ELSE 2] = king
               /\ next.board[row][IF short THEN 5 ELSE 3] = rook
               /\ next.board[row][IF short THEN 7 ELSE 0] = " "
               /\ next.board[row][4] = " "
               /\ Range(next.castling_rights)
                    \cap (IF white THEN {"K", "Q"} ELSE {"k", "q"}) = {}

\* The last call was an accepted two-square pawn advance.
LastDoublePush ==
    /\ Accepted
    /\ LET s == _from_algebraic(Slice(lastOp.arg, 0, 2))
           e == _from_algebraic(Slice(lastOp.arg, 2, 4))
       IN  /\ lower(pre.current_state.board[s.row][s.col]) = "p"
           /\ abs(s.row - e.row) = 2

\* The files, left and right of the pawn that advanced, holding an enemy pawn
BesideCols ==
    LET e     == _from_algebraic(Slice(lastOp.arg, 2, 4))
        enemy == IF current_state.turn = "w" THEN "P" ELSE "p"
    IN  {c \in {e.col - 1, e.col + 1} :
            InBoard(e.row, c) /\ current_state.board[e.row][c] = enemy}

\* The capture, from file c, onto the square the pawn skipped
EpCapture(c) ==
    LET s == _from_algebraic(Slice(lastOp.arg, 0, 2))
        e == _from_algebraic(Slice(lastOp.arg, 2, 4))
    IN  _to_algebraic(e.row, c) \o _to_algebraic((s.row + e.row) \div 2, e.col)

\* The capture from file c moves the capturing pawn onto the skipped square
\* and empties the square of the pawn that advanced.
EpEffect(c) ==
    LET s     == _from_algebraic(Slice(lastOp.arg, 0, 2))
        e     == _from_algebraic(Slice(lastOp.arg, 2, 4))
        board == current_state.board
        next  == _create_new_state_from_move(current_state, EpCapture(c)).board
    IN  /\ next[(s.row + e.row) \div 2][e.col] = board[e.row][c]
        /\ next[e.row][e.col] = " "
        /\ next[e.row][c] = " "
        /\ board[e.row][e.col] # " "

\* C9 as stated: after a two-square pawn advance that lands beside an enemy
\* pawn, that pawn's capture onto the skipped square is a legal move, and
\* applying it empties the square of the pawn that advanced.
C9_EnPassantAlwaysLegal ==
    LastDoublePush =>
        LET legal == Range(LegalNow)
        IN  \A c \in BesideCols :
                /\ EpCapture(c) \in legal
                /\ EpEffect(c)

\* C9 amended: the capture is a legal move exactly when it does not leave the
\* capturing side's own king in check; when it is legal, applying it puts the
\* capturing pawn on the skipped square and empties the square of the pawn
\* that advanced.
C9_EnPassantUnlessInCheck ==
    LastDoublePush =>
        LET legal == Range(LegalNow)
        IN  \A c \in BesideCols :
                /\ EpCapture(c) \in legal
                     <=> ~_is_king_in_check(
                             _get_next_board_state(current_state.board, EpCapture(c)),
                             current_state.turn = "w")
                /\ EpCapture(c) \in legal => EpEffect(c)

\* A pawn has advanced two squares beside an enemy pawn whose en passant
\* capture is legal.
C9_Witness ==
    /\ LastDoublePush
    /\ \E c \in BesideCols : EpCapture(c) \in Range(LegalNow)

\* C10: after f2f3, e7e5, g2g4, d8h4 from the initial position, white is to
\* move, is_checkmate is true and is_stalemate is false.
C10_FoolsMate ==
    moves = SubSeq(FoolsMate, 1, 4) =>
        /\ Len(history) = 5
        /\ current_state.turn = "w"
        /\ is_checkmate(current_state, current_state)
        /\ ~is_stalemate(current_state, current_state)

\* The four moves have been accepted in that order.
C10_Witness ==
    /\ moves = SubSeq(FoolsMate, 1, 4)
    /\ Accepted
    /\ lastOp.arg = <<"d", "8", "h", "4">>

\* C11: is_checkmate is true exactly when the king of the side to move is in
\* check and get_all_legal_moves is empty; is_stalemate is true exactly when
\* that king is not in check and get_all_legal_moves is empty; the two are
\* never both true.
C11_MateAndStalemate ==
    LET state    == current_state
        in_check == _is_king_in_check(state.board, state.turn = "w")
        no_move  == Len(LegalNow) = 0
        mate     == is_checkmate(state, state)
        stale    == is_stalemate(state, state)
    IN  /\ mate <=> (in_check /\ no_move)
        /\ stale <=> (~in_check /\ no_move)
        /\ ~(mate /\ stale)

\* The stalemate position has been reached: black is to move, is not in check
\* and has no legal move.
C11_Witness ==
    /\ moves = SubSeq(Stalemate, 1, 19)
    /\ current_state.turn = "b"
    /\ ~_is_king_in_check(current_state.board, FALSE)
    /\ Len(LegalNow) = 0
    /\ is_stalemate(current_state, current_state)

\* C12: castling rights are only ever lost: the rights after any legal move
\* are a subset of the rights before it, and along the recorded history the
\* set of rights never grows.
C12_RightsOnlyLost ==
    /\ \A i \in 1..(Len(history) - 1) :
          Range(history[i + 1].castling_rights)
              \subseteq Range(history[i].castling_rights)
    /\ \A move \in Range(LegalNow) :
          Range(_create_new_state_from_move(current_state, move).castling_rights)
              \subseteq Range(current_state.castling_rights)

\* The move just accepted has cost its side a right that the position before
\* it still had.
C12_Witness ==
    /\ Accepted
    /\ Range(current_state.castling_rights) # Range(pre.current_state.castling_rights)
    /\ Range(current_state.castling_rights) # {}

\* C13: _from_algebraic fails with an error for every label whose first
\* character is outside 'a'..'h' or whose second character is not a digit
\* '1'..'8', and never returns a row or a column outside 0..7.
C13_BadLabelsRejected ==
    lastOp.op = "_from_algebraic" =>
        LET notation == lastOp.arg
            result   == lastOp.result
        IN  /\ (/\ Len(notation) = 2
                /\ \/ notation[1] \notin {Letters[f] : f \in 1..8}
                   \/ notation[2] \notin {Digits[d] : d \in 2..9})
               => result.exc # "None"
            /\ result.exc = "None" => InBoard(result.row, result.col)

\* C14: the codec round-trips on the board: _from_algebraic(_to_algebraic(r, c))
\* is (r, c) for all r, c in 0..7, _to_algebraic(_from_algebraic(s)) is s for
\* each of the 64 labels, and row 0 corresponds to rank 8.
C14_CodecRoundTrip ==
    /\ lastOp.op = "_to_algebraic" =>
          LET row  == lastOp.arg[1]
              col  == lastOp.arg[2]
              back == _from_algebraic(lastOp.result)
          IN  /\ back.exc = "None"
              /\ <<back.row, back.col>> = <<row, col>>
              /\ lastOp.result \in BoardLabels
              /\ row = 0 <=> lastOp.result[2] = "8"
    /\ (lastOp.op = "_from_algebraic" /\ lastOp.arg \in BoardLabels) =>
          /\ lastOp.result.exc = "None"
          /\ InBoard(lastOp.result.row, lastOp.result.col)
          /\ _to_algebraic(lastOp.result.row, lastOp.result.col) = lastOp.arg
          /\ lastOp.result.row = 0 <=> lastOp.arg[2] = "8"

\* Row 0, column 4 has been encoded, as e8.
C14_Witness ==
    /\ lastOp.op = "_to_algebraic"
    /\ lastOp.arg = <<0, 4>>
    /\ lastOp.result = <<"e", "8">>

\* The squares of a board that hold a piece other than a king
NonKingSquares(board) ==
    {k \in 0..63 : board[k \div 8][k % 8] \notin {" ", "K", "k"}}

\* C15: is_draw_by_insufficient_material is true exactly when, kings ignored,
\* the board holds no piece, or exactly one piece that is a bishop or a knight,
\* or exactly two bishops standing on squares of the same colour; it is true
\* for two bare kings and false for kings plus one rook.
C15_InsufficientMaterial ==
    lastOp.op = "is_draw_by_insufficient_material" =>
        LET board     == lastOp.arg.board
            others    == NonKingSquares(board)
            kind(k)   == lower(board[k \div 8][k % 8])
            colour(k) == ((k \div 8) + (k % 8)) % 2
            expected  ==
                \/ others = {}
                \/ /\ Cardinality(others) = 1
                   /\ \A k \in others : kind(k) \in {"b", "n"}
                \/ /\ Cardinality(others) = 2
                   /\ \A k \in others : kind(k) = "b"
                   /\ \A j, k \in others : colour(j) = colour(k)
        IN  /\ lastOp.result = expected
            /\ others = {} => lastOp.result = TRUE
            /\ (Cardinality(others) = 1 /\ \A k \in others : kind(k) = "r")
                  => lastOp.result = FALSE

\* Two bishops on squares of the same colour have been judged a draw.
C15_Witness ==
    /\ lastOp.op = "is_draw_by_insufficient_material"
    /\ Cardinality(NonKingSquares(lastOp.arg.board)) = 2
    /\ lastOp.result = TRUE

\* The mover's king is attacked on the board that a move produces
LeavesKingAttacked(state, move) ==
    LET white == state.turn = "w"
        after == _get_next_board_state(state.board, move)
    IN  \E k \in 0..63 :
            /\ after[k \div 8][k % 8] = (IF white THEN "K" ELSE "k")
            /\ _is_square_attacked(after, k \div 8, k % 8, ~white)

\* C16: in every reachable position a move is in get_all_legal_moves exactly
\* when it is one of the generated candidates (piece moves, en passant,
\* castling) and the board after applying it does not leave the mover's own
\* king attacked.
C16_LegalIffSafeCandidate ==
    LET state      == current_state
        candidates == Range(pseudo_legal_moves(state, state))
        legal      == Range(LegalNow)
    IN  /\ legal \subseteq candidates
        /\ \A move \in candidates :
              move \in legal <=> ~LeavesKingAttacked(state, move)

\* The side to move is in check and has both a candidate that is filtered out
\* and a candidate that is kept.
C16_Witness ==
    LET state      == current_state
        candidates == Range(pseudo_legal_moves(state, state))
        legal      == Range(LegalNow)
    IN  /\ _is_king_in_check(state.board, state.turn = "w")
        /\ legal # {}
        /\ candidates \ legal # {}

\* C17: a castling move is generated only if the matching rights flag is set,
\* every square between king and rook is empty, the king's square is not
\* attacked, and the squares the king crosses and lands on are not attacked.
C17_CastlingConditions ==
    LET state     == current_state
        board     == state.board
        white     == state.turn = "w"
        row       == IF white THEN 7 ELSE 0
        rank      == IF white THEN "1" ELSE "8"
        rights    == Range(state.castling_rights)
        generated == Range(get_casteling_moves(state))
        short     == <<"e", rank, "g", rank>>
        long      == <<"e", rank, "c", rank>>
        Quiet(c)  == ~_is_square_attacked(board, row, c, ~white)
    IN  /\ generated \subseteq {short, long}
        /\ short \in generated =>
              /\ (IF white THEN "K" ELSE "k") \in rights
              /\ \A c \in 5..6 : board[row][c] = " "
              /\ \A c \in 4..6 : Quiet(c)
        /\ long \in generated =>
              /\ (IF white THEN "Q" ELSE "q") \in rights
              /\ \A c \in 1..3 : board[row][c] = " "
              /\ \A c \in 2..4 : Quiet(c)

\* A castling move is generated in the current position.
C17_Witness ==
    /\ get_casteling_moves(current_state) # <<>>
    /\ Len(moves) > 0

\* C18: in every reachable position, if a castling-rights flag is set then the
\* king of that colour stands on its home square (e1 or e8) and a rook of that
\* colour stands on the matching corner; a right does not survive the capture
\* of its rook.
C18_RightsImplyHomeSquares ==
    LET board  == current_state.board
        rights == Range(current_state.castling_rights)
    IN  /\ "K" \in rights => (board[7][4] = "K" /\ board[7][7] = "R")
        /\ "Q" \in rights => (board[7][4] = "K" /\ board[7][0] = "R")
        /\ "k" \in rights => (board[0][4] = "k" /\ board[0][7] = "r")
        /\ "q" \in rights => (board[0][4] = "k" /\ board[0][0] = "r")

\* The flags a move takes away: both flags of a king that moves, the one flag
\* of a rook that leaves its own corner, none otherwise
FlagsLost(board, move) ==
    LET piece == MovedPiece(board, move)
        from  == Slice(move, 0, 2)
    IN  CASE piece = "K" -> {"K", "Q"}
          [] piece = "k" -> {"k", "q"}
          [] piece = "R" /\ from = <<"h", "1">> -> {"K"}
          [] piece = "R" /\ from = <<"a", "1">> -> {"Q"}
          [] piece = "r" /\ from = <<"h", "8">> -> {"k"}
          [] piece = "r" /\ from = <<"a", "8">> -> {"q"}
          [] OTHER -> {}

\* The rights of after are the rights of before without the flags lost
RightsFrame(before, move, after) ==
    LET lost == FlagsLost(before.board, move)
    IN  after.castling_rights =
            SelectSeq(before.castling_rights, LAMBDA flag : flag \notin lost)

\* C19: applying a legal move changes the castling rights in exactly these
\* cases: a king move removes both flags of its colour, and a rook leaving h1,
\* a1, h8 or a8 removes the single matching flag; every other move leaves the
\* rights string unchanged.
C19_RightsChangeCases ==
    /\ Accepted => RightsFrame(pre.current_state, lastOp.arg, current_state)
    /\ \A move \in Range(LegalNow) :
          RightsFrame(current_state, move,
                      _create_new_state_from_move(current_state, move))

\* The white rook has just left h1: white has lost the kingside flag and kept
\* the queenside flag.
C19_Witness ==
    /\ Accepted
    /\ MovedPiece(pre.current_state.board, lastOp.arg) = "R"
    /\ Slice(lastOp.arg, 0, 2) = <<"h", "1">>
    /\ "K" \in Range(pre.current_state.castling_rights)
    /\ current_state.castling_rights = <<"Q", "k", "q">>

\* A move that takes a pawn of the board two ranks forward
IsDoublePush(board, move) ==
    /\ lower(MovedPiece(board, move)) = "p"
    /\ move[1] = move[3]
    /\ <<move[2], move[4]>> \in {<<"2", "4">>, <<"7", "5">>}

\* C20: in every position produced by make_move, en_passant_target is set
\* exactly when the move just made was a pawn advancing two squares, and it
\* then equals the square that pawn jumped over; otherwise it is None.
C20_EnPassantTarget ==
    \A i \in 1..Len(moves) :
        LET before == history[i]
            after  == history[i + 1]
            move   == moves[i]
        IN  IF IsDoublePush(before.board, move)
            THEN after.en_passant_target =
                     <<move[1], IF before.turn = "w" THEN "3" ELSE "6">>
            ELSE after.en_passant_target = None

\* Black has just played d7d5 and the target is d6; the move before it left
\* no target.
C20_Witness ==
    /\ Accepted
    /\ Len(moves) >= 2
    /\ lastOp.arg = <<"d", "7", "d", "5">>
    /\ current_state.en_passant_target = <<"d", "6">>
    /\ pre.current_state.en_passant_target = None

\* A move that takes a piece: its destination is occupied, or it is a pawn
\* leaving its file onto an empty square (en passant)
IsCapture(board, move) ==
    LET s == _from_algebraic(Slice(move, 0, 2))
        e == _from_algebraic(Slice(move, 2, 4))
    IN  \/ board[e.row][e.col] # " "
        \/ lower(board[s.row][s.col]) = "p" /\ s.col # e.col

\* The clock of after is 0 for a pawn move or a capture, else one more than
\* the clock of before
ClockStep(before, move, after) ==
    after.halfmove_clock =
        IF lower(MovedPiece(before.board, move)) = "p" \/ IsCapture(before.board, move)
        THEN 0
        ELSE before.halfmove_clock + 1

\* C21: for every legal move the new halfmove_clock is 0 if the moved piece is
\* a pawn or the move captures a piece (destination occupied before the move,
\* or en passant), and otherwise is the previous clock plus 1.
C21_HalfmoveClock ==
    /\ \A i \in 1..Len(moves) : ClockStep(history[i], moves[i], history[i + 1])
    /\ \A move \in Range(LegalNow) :
          ClockStep(current_state, move,
                    _create_new_state_from_move(current_state, move))

\* A piece other than a pawn has just captured while the clock was running,
\* and the clock is back to 0.
C21_Witness ==
    /\ Accepted
    /\ lower(MovedPiece(pre.current_state.board, lastOp.arg)) # "p"
    /\ IsCapture(pre.current_state.board, lastOp.arg)
    /\ pre.current_state.halfmove_clock > 0
    /\ current_state.halfmove_clock = 0

\* C22: for every legal move fullmove_number grows by exactly 1 when the side
\* that moved was black and is unchanged when it was white; after n accepted
\* moves from the initial position it equals 1 + floor(n / 2).
C22_FullmoveNumber ==
    /\ \A i \in 1..Len(moves) :
          /\ history[i + 1].fullmove_number =
                history[i].fullmove_number + (IF history[i].turn = "b" THEN 1 ELSE 0)
          /\ history[i + 1].fullmove_number = 1 + (i \div 2)
    /\ current_state.fullmove_number = 1 + (Len(moves) \div 2)

\* Black has just made the fourth move of the game and the number went from
\* 2 to 3.
C22_Witness ==
    /\ Accepted
    /\ Len(moves) = 4
    /\ pre.current_state.turn = "b"
    /\ pre.current_state.fullmove_number = 2
    /\ current_state.fullmove_number = 3

\* The squares of a board that hold a pawn
PawnSquares(board) == {k \in 0..63 : lower(board[k \div 8][k % 8]) = "p"}

\* The number of entries of a list that are equal to x
Occurrences(list, x) == Cardinality({i \in 1..Len(list) : list[i] = x})

\* C23: get_pawn_moves emits every pawn move that lands on the opponent's back
\* rank as exactly four moves, one per suffix r, n, b, q, and emits every
\* other pawn move exactly once with no suffix, so the pawn move list contains
\* no duplicates.
C23_PawnMovesOnce ==
    \A k \in PawnSquares(current_state.board) :
        LET list == get_pawn_moves(current_state, current_state.board,
                                   k \div 8, k % 8)
        IN  \A move \in Range(list) :
                /\ Occurrences(list, move) = 1
                /\ IF move[4] \in {"1", "8"}
                   THEN /\ Len(move) = 5
                        /\ \A suffix \in Range(PromotionPieces) :
                              Occurrences(list, Slice(move, 0, 4) \o <<suffix>>) = 1
                   ELSE Len(move) = 4

\* No pawn stands on rank 8 (row 0) or rank 1 (row 7) of a board
NoPawnOnBackRank(board) ==
    \A c \in 0..7 : board[0][c] \notin {"P", "p"} /\ board[7][c] \notin {"P", "p"}

\* A pawn of before that move takes to a back rank is, on after, a rook,
\* knight, bishop or queen of the pawn's colour
PromotedOnArrival(before, move, after) ==
    LET pawn == MovedPiece(before, move)
        e    == _from_algebraic(Slice(move, 2, 4))
    IN  (lower(pawn) = "p" /\ e.row \in {0, 7}) =>
            after[e.row][e.col] \in
                (IF pawn = "P" THEN {"R", "N", "B", "Q"} ELSE {"r", "n", "b", "q"})

\* C24: in every position reachable through make_move no pawn stands on rank 1
\* or rank 8: a pawn reaching the opponent's back rank is always replaced, in
\* the same move, by a rook, knight, bishop or queen of the pawn's own colour.
C24_NoPawnOnBackRank ==
    /\ NoPawnOnBackRank(current_state.board)
    /\ Accepted =>
          PromotedOnArrival(pre.current_state.board, lastOp.arg, current_state.board)
    /\ \A move \in Range(LegalNow) :
          LET after == _get_next_board_state(current_state.board, move)
          IN  /\ NoPawnOnBackRank(after)
              /\ PromotedOnArrival(current_state.board, move, after)

\* The white pawn on h7 has just taken on g8 and a white queen stands there.
C24_Witness ==
    /\ Accepted
    /\ lastOp.arg = <<"h", "7", "g", "8", "q">>
    /\ pre.current_state.board[1][7] = "P"
    /\ current_state.board[0][6] = "Q"
    /\ current_state.board[1][7] = " "

sign(n) == IF n < 0 THEN -1 ELSE IF n > 0 THEN 1 ELSE 0

\* The squares strictly between (pr, pc) and (row, col), which lie on one
\* line, are all empty
ClearBetween(board, pr, pc, row, col) ==
    LET dr == row - pr
        dc == col - pc
        n  == IF abs(dr) > abs(dc) THEN abs(dr) ELSE abs(dc)
    IN  \A i \in 1..(n - 1) : board[pr + i * sign(dr)][pc + i * sign(dc)] = " "

\* The piece standing on (pr, pc) attacks (row, col) by chess geometry
Attacks(board, pr, pc, row, col) ==
    LET piece    == board[pr][pc]
        kind     == lower(piece)
        dr       == row - pr
        dc       == col - pc
        straight == (dr = 0) # (dc = 0)
        diagonal == abs(dr) = abs(dc) /\ dr # 0
    IN  CASE kind = "p" -> abs(dc) = 1 /\ dr = (IF piece = "P" THEN -1 ELSE 1)
          [] kind = "n" -> {abs(dr), abs(dc)} = {1, 2}
          [] kind = "r" -> straight /\ ClearBetween(board, pr, pc, row, col)
          [] kind = "b" -> diagonal /\ ClearBetween(board, pr, pc, row, col)
          [] kind = "q" -> (straight \/ diagonal)
                               /\ ClearBetween(board, pr, pc, row, col)
          [] kind = "k" -> abs(dr) <= 1 /\ abs(dc) <= 1 /\ <<dr, dc>> # <<0, 0>>
          [] OTHER -> FALSE

\* The squares of a board attacked by the pieces of one side
AttackedSquares(board, by_white) ==
    LET own == {k \in 0..63 :
                   IF by_white THEN isupper(board[k \div 8][k % 8])
                   ELSE islower(board[k \div 8][k % 8])}
    IN  {sq \in 0..63 :
            \E k \in own : Attacks(board, k \div 8, k % 8, sq \div 8, sq % 8)}

\* C25: for every board, square and side, _is_square_attacked is true exactly
\* when some piece of that side attacks the square by chess geometry: a pawn
\* on one of its two capture diagonals, a knight a jump away, a rook or queen
\* on an unobstructed orthogonal ray, a bishop or queen on an unobstructed
\* diagonal ray, or a king on an adjacent square; a piece standing between
\* blocks a ray.
C25_AttackGeometry ==
    \A by_white \in BOOLEAN :
        LET board == current_state.board
        IN  {sq \in 0..63 : _is_square_attacked(board, sq \div 8, sq % 8, by_white)}
                = AttackedSquares(board, by_white)

\* After e2e4, f7f5, d1h5 the white queen attacks e8 along the diagonal that
\* f7f5 has opened, and no white piece attacks d8.
C25_Witness ==
    /\ Accepted
    /\ moves = SubSeq(CheckAnswered, 1, 3)
    /\ _is_square_attacked(current_state.board, 0, 4, TRUE)
    /\ ~_is_square_attacked(current_state.board, 0, 3, TRUE)

\* The squares a rook, bishop or queen standing on (pr, pc) may move to: on
\* one of its lines, nothing between, and empty or held by the other colour
SliderTargets(board, pr, pc) ==
    LET piece == board[pr][pc]
        kind  == lower(piece)
    IN  {sq \in 0..63 :
            LET row    == sq \div 8
                col    == sq % 8
                dr     == row - pr
                dc     == col - pc
                target == board[row][col]
            IN  /\ \/ kind \in {"r", "q"} /\ ((dr = 0) # (dc = 0))
                   \/ kind \in {"b", "q"} /\ abs(dr) = abs(dc) /\ dr # 0
                /\ ClearBetween(board, pr, pc, row, col)
                /\ target = " " \/ isupper(target) # isupper(piece)}

\* The list a generator returns for (pr, pc) names each target once, and
\* nothing else
ListsExactly(list, pr, pc, targets) ==
    /\ Len(list) = Cardinality(targets)
    /\ Range(list) =
          {_to_algebraic(pr, pc) \o _to_algebraic(sq \div 8, sq % 8) : sq \in targets}

\* The generator the engine calls for a rook, bishop or queen
SliderMoves(board, pr, pc) ==
    CASE lower(board[pr][pc]) = "r" -> get_rook_moves(board, pr, pc)
      [] lower(board[pr][pc]) = "b" -> get_bishop_moves(board, pr, pc)
      [] lower(board[pr][pc]) = "q" -> get_queen_moves(board, pr, pc)

SliderSquares(board) ==
    {k \in 0..63 : lower(board[k \div 8][k % 8]) \in {"r", "b", "q"}}

\* C26: rook, bishop and queen generators return, along each of their rays,
\* every empty square up to the first occupied square, include that occupied
\* square only when it holds a piece of the opposite colour, and return
\* nothing beyond it; no sliding move lands on a piece of the mover's colour
\* or jumps over a piece.
C26_SlidingMoves ==
    LET board == current_state.board
    IN  \A k \in SliderSquares(board) :
            ListsExactly(SliderMoves(board, k \div 8, k % 8), k \div 8, k % 8,
                         SliderTargets(board, k \div 8, k % 8))

\* A slider of the current position has, on one ray, an empty square followed
\* by an enemy piece it may take, and on another ray a piece of its own
\* colour next to it.
C26_Witness ==
    LET board == current_state.board
    IN  \E k \in SliderSquares(board) :
            LET pr      == k \div 8
                pc      == k % 8
                targets == SliderTargets(board, pr, pc)
            IN  /\ \E sq \in targets : board[sq \div 8][sq % 8] = " "
                /\ \E sq \in targets :
                      /\ board[sq \div 8][sq % 8] # " "
                      /\ abs((sq \div 8) - pr) > 1 \/ abs((sq % 8) - pc) > 1
                /\ \E dr \in {-1, 0, 1}, dc \in {-1, 0, 1} :
                      /\ InBoard(pr + dr, pc + dc) /\ <<dr, dc>> # <<0, 0>>
                      /\ board[pr + dr][pc + dc] # " "
                      /\ isupper(board[pr + dr][pc + dc]) = isupper(board[pr][pc])
                /\ Range(SliderMoves(board, pr, pc)) # {}

\* What a pawn standing on (r, c) is allowed as a move to (row, col): one
\* square ahead onto an empty square, two squares ahead from its home rank
\* over an empty square onto an empty square, or one square diagonally ahead
\* onto an enemy piece
PawnMoveAllowed(board, r, c, row, col) ==
    LET white == board[r][c] = "P"
        ahead == IF white THEN -1 ELSE 1
        home  == IF white THEN 6 ELSE 1
        target == board[row][col]
    IN  \/ /\ col = c /\ row = r + ahead
           /\ target = " "
        \/ /\ col = c /\ row = r + 2 * ahead
           /\ r = home
           /\ board[r + ahead][c] = " "
           /\ target = " "
        \/ /\ abs(col - c) = 1 /\ row = r + ahead
           /\ target # " "
           /\ isupper(target) # white

\* C27: get_pawn_moves offers the one-square advance only onto an empty
\* square, the two-square advance only from the pawn's home rank with both the
\* crossed and the destination square empty, and a diagonal move only onto a
\* square holding an enemy piece; a pawn never captures straight ahead and
\* never moves backwards.
C27_PawnMoves ==
    LET board == current_state.board
    IN  \A k \in PawnSquares(board) :
            \A move \in Range(get_pawn_moves(current_state, board, k \div 8, k % 8)) :
                LET e == _from_algebraic(Slice(move, 2, 4))
                IN  /\ Slice(move, 0, 2) = _to_algebraic(k \div 8, k % 8)
                    /\ e.exc = "None"
                    /\ InBoard(e.row, e.col)
                    /\ PawnMoveAllowed(board, k \div 8, k % 8, e.row, e.col)

\* A pawn on its home rank has a piece right in front of it and an empty
\* square behind that piece, and is offered no advance; another pawn is
\* offered a capture.
C27_Witness ==
    LET board == current_state.board
        Dest(move) == _from_algebraic(Slice(move, 2, 4))
        List(k) == Range(get_pawn_moves(current_state, board, k \div 8, k % 8))
    IN  /\ \E k \in PawnSquares(board) :
              LET r     == k \div 8
                  c     == k % 8
                  ahead == IF board[r][c] = "P" THEN -1 ELSE 1
              IN  /\ r = (IF board[r][c] = "P" THEN 6 ELSE 1)
                  /\ board[r + ahead][c] # " "
                  /\ board[r + 2 * ahead][c] = " "
                  /\ \A move \in List(k) : Dest(move).col # c
        /\ \E k \in PawnSquares(board) :
              \E move \in List(k) : Dest(move).col # k % 8

\* The squares on which two boards differ
ChangedSquares(before, after) ==
    {k \in 0..63 : before[k \div 8][k % 8] # after[k \div 8][k % 8]}

\* The squares a move may change: its source and destination, the square of
\* the pawn taken en passant, the corner and the crossed square of the rook
\* in castling
MayChange(before, move) ==
    LET s     == _from_algebraic(Slice(move, 0, 2))
        e     == _from_algebraic(Slice(move, 2, 4))
        piece == before[s.row][s.col]
    IN  {s.row * 8 + s.col, e.row * 8 + e.col}
        \cup (IF lower(piece) = "p" /\ s.col # e.col /\ before[e.row][e.col] = " "
              THEN {s.row * 8 + e.col} ELSE {})
        \cup (IF lower(piece) = "k" /\ abs(s.col - e.col) = 2
              THEN (IF e.col > s.col THEN {s.row * 8 + 7, s.row * 8 + 5}
                    ELSE {s.row * 8 + 0, s.row * 8 + 3})
              ELSE {})

\* C28: applying a legal move changes only the source and destination squares
\* of the board, plus the captured pawn's square for en passant and the rook's
\* home and crossed squares for castling; every other square is identical
\* before and after, and the position the move was applied to is not
\* modified.
C28_BoardFrame ==
    /\ \A i \in 1..Len(moves) :
          ChangedSquares(history[i].board, history[i + 1].board)
              \subseteq MayChange(history[i].board, moves[i])
    /\ \A move \in Range(LegalNow) :
          ChangedSquares(current_state.board,
                         _get_next_board_state(current_state.board, move))
              \subseteq MayChange(current_state.board, move)
    /\ Accepted =>
          /\ SubSeq(history, 1, Len(history) - 1) = pre.history
          /\ history[Len(history) - 1] = pre.current_state

\* White has just castled queenside: the rook went from a1 to d1 and the rook
\* on h1 has not moved.
C28_Witness ==
    /\ Accepted
    /\ lastOp.arg = <<"e", "1", "c", "1">>
    /\ ChangedSquares(pre.current_state.board, current_state.board) = {56, 58, 59, 60}
    /\ current_state.board[7][3] = "R"
    /\ current_state.board[7][7] = "R"

\* C29: for every sequence of moves accepted by make_move, get_move_history
\* returns one entry per move made, in order, each equal to the source and
\* destination squares of that move (including castling, en passant and
\* promotion moves).
C29_MoveHistory ==
    get_move_history(history) = [i \in 1..Len(moves) |-> Slice(moves[i], 0, 4)]

\* A position in which the side to move is checkmated or stalemated
GameOver(state) == is_checkmate(state, state) \/ is_stalemate(state, state)

\* The side that made the last accepted move, read from the piece that now
\* stands on the destination of that move
LastMoverIsWhite ==
    LET e == _from_algebraic(Slice(moves[Len(moves)], 2, 4))
    IN  isupper(current_state.board[e.row][e.col])

=============================================================================
